---- MODULE Spec2Model ----
(***************************************************************************)
(* Model of icebox/nt/nt_memory.cpp: the NT guest virtual-to-physical      *)
(* translation (page-table walk, software-PTE classification, prototype    *)
(* PTE resolution) and the page-granular API built on it.                  *)
(*                                                                         *)
(* A uint64_t is modelled as the set of its set bit positions (a subset    *)
(* of 0..63): TLC integers are 32 bits wide, and every operation of the    *)
(* source (&, ~, <<, +, -, *, /) is computed on that representation        *)
(* modulo 2^64.                                                            *)
(***************************************************************************)
EXTENDS Integers, Sequences, FiniteSets, TLC

(***************************************************************************)
(* 64-bit arithmetic                                                       *)
(***************************************************************************)
Word == 0..63

Pow2(n) == 2^n

\* the uint64_t holding the natural number n (n < 2^31)
Val(n) == {i \in 0..30 : (n \div Pow2(i)) % 2 = 1}

And64(a, b) == a \cap b
Not64(a) == Word \ a
Shl64(a, n) == {i + n : i \in a} \cap Word
Shr64(a, n) == {i - n : i \in {j \in a : j >= n}}

\* the carry into bit i of a + b: some lower bit generates it and every bit
\* in between propagates it
Carry(a, b, i) ==
    \E j \in 0..(i - 1) :
        /\ j \in a /\ j \in b
        /\ \A k \in (j + 1)..(i - 1) : k \in a \/ k \in b

Add64(a, b) == {i \in Word : (i \in a) # ((i \in b) # Carry(a, b, i))}
Sub64(a, b) == Add64(Add64(a, Not64(b)), {0})

\* shift-and-add over the set bits of b
RECURSIVE MulBits(_, _, _)
MulBits(a, bs, acc) ==
    IF bs = {} THEN acc
    ELSE LET i == CHOOSE x \in bs : \A y \in bs : x <= y
         IN  MulBits(a, bs \ {i}, Add64(acc, Shl64(a, i)))

Mul64(a, b) == MulBits(a, b, {})

\* unsigned division by a natural number that is a power of two
Div64(a, n) == Shr64(a, CHOOSE k \in 0..30 : Pow2(k) = n)

\* a bit-field of `width` bits at position `lo`, read as an unsigned value
Field(v, lo, width) == {i - lo : i \in v \cap (lo..(lo + width - 1))}

\* the same bit-field read as a signed value, sign-extended to 64 bits
SignedField(v, lo, width) ==
    Field(v, lo, width) \cup (IF (lo + width - 1) \in v THEN width..63 ELSE {})

(***************************************************************************)
(* Page size and entry layouts (nt_mmu.hpp)                                *)
(*                                                                         *)
(* nt_mmu.hpp declares MMPTE and virt_t as unions of bit-fields; the       *)
(* positions below are those of the x64 MMPTE_HARDWARE, MMPTE_SOFTWARE,    *)
(* MMPTE_TRANSITION and MMPTE_PROTOTYPE layouts. The properties refer to   *)
(* the fields by name only.                                                *)
(***************************************************************************)
PAGE_SIZE == 4096
SizeofPte == 8

\* virt_t: offset:12, pt:9, pd:9, pdp:9, pml4:9
\* read_le64 of the in-memory bytes of a uint64_t on the little-endian host
HostBytes(v) == [k \in 0..7 |-> Field(v, 8 * k, 8)]
read_le64(bytes) == UNION {Shl64(bytes[k], 8 * k) : k \in 0..7}
virt_t(ptr) ==
    LET v == read_le64(HostBytes(ptr))
    IN  [offset |-> Field(v, 0, 12),
         pt     |-> Field(v, 12, 9),
         pd     |-> Field(v, 21, 9),
         pdp    |-> Field(v, 30, 9),
         pml4   |-> Field(v, 39, 9)]

\* MMPTE.u.hard
hard_Valid(pte) == 0 \in pte
hard_LargePage(pte) == 7 \in pte
hard_PageFrameNumber(pte) == Field(pte, 12, 36)
\* MMPTE.u.soft
soft_SwizzleBit(pte) == 4 \in pte
soft_Prototype(pte) == 10 \in pte
soft_Transition(pte) == 11 \in pte
soft_PageFileHigh(pte) == Field(pte, 32, 32)
\* MMPTE.u.trans
trans_PageFrameNumber(pte) == Field(pte, 12, 36)
\* MMPTE.u.proto (ProtoAddress is a signed 48-bit field)
proto_ProtoAddress(pte) == SignedField(pte, 16, 48)

(***************************************************************************)
(* Pure helpers of nt_memory.cpp                                           *)
(***************************************************************************)
KernelAddressMask == 52..63

\* variant: every bit of the mask required
is_kernel_address_all(p) == And64(p, KernelAddressMask) = KernelAddressMask

is_kernel_address(p) == And64(p, KernelAddressMask) # {}

mask(bits) == Not64(Shl64(Not64({}), bits))

\* opt<T>: the empty sequence is the empty optional
None == <<>>
Some(v) == <<v>>
HasValue(o) == Len(o) = 1
Value(o) == o[1]

unswizzle_pte(lim, pte) ==
    IF lim # {} /\ ~soft_SwizzleBit(pte) THEN And64(pte, Not64(lim)) ELSE pte

physical_page(pfn, offset) ==
    [ptr |-> Add64(pfn, offset), valid_page |-> TRUE, zero_page |-> FALSE]

page_fault_required == [ptr |-> {}, valid_page |-> FALSE, zero_page |-> FALSE]
zero_page == [ptr |-> {}, valid_page |-> FALSE, zero_page |-> TRUE]

\* variant: the prototype test left out
prototype_pte_to_physical_no_proto(lim, p, pte0) ==
    LET virt == virt_t(p)
        pte  == unswizzle_pte(lim, pte0)
    IN  IF hard_Valid(pte0)
        THEN physical_page(Mul64(hard_PageFrameNumber(pte0), Val(PAGE_SIZE)), virt.offset)
        ELSE IF soft_Transition(pte)
        THEN physical_page(Mul64(trans_PageFrameNumber(pte), Val(PAGE_SIZE)), virt.offset)
        ELSE IF soft_PageFileHigh(pte) = {} THEN zero_page
        ELSE page_fault_required

prototype_pte_to_physical(lim, p, pte0) ==
    LET virt == virt_t(p)
        pte  == unswizzle_pte(lim, pte0)
    IN  IF hard_Valid(pte0)
        THEN physical_page(Mul64(hard_PageFrameNumber(pte0), Val(PAGE_SIZE)), virt.offset)
        ELSE IF soft_Prototype(pte) THEN page_fault_required
        ELSE IF soft_Transition(pte)
        THEN physical_page(Mul64(trans_PageFrameNumber(pte), Val(PAGE_SIZE)), virt.offset)
        ELSE IF soft_PageFileHigh(pte) = {} THEN zero_page
        ELSE page_fault_required

vad_mask == 32..63

\* Where classification of an entry leads: a final walk result (next = "tail"),
\* the descriptor lookup of vad_pte_to_physical (next = "vad_find"), or the
\* PagedPool read of pte_to_physical (next = "pool", at address addr).
Outcome(next, res, addr, via) == [next |-> next, res |-> res, addr |-> addr, via |-> via]

\* variant: the two process-less results exchanged
vad_pte_to_physical_swapped(p, pr) ==
    IF pr = None
    THEN IF is_kernel_address(p)
         THEN Outcome("tail", Some(page_fault_required), {}, <<"vad_pte_to_physical">>)
         ELSE Outcome("tail", None, {}, <<"vad_pte_to_physical">>)
    ELSE Outcome("vad_find", None, {}, <<"vad_pte_to_physical">>)

vad_pte_to_physical(p, pr) ==
    IF pr = None
    THEN IF is_kernel_address(p)
         THEN Outcome("tail", None, {}, <<"vad_pte_to_physical">>)
         ELSE Outcome("tail", Some(page_fault_required), {}, <<"vad_pte_to_physical">>)
    ELSE Outcome("vad_find", None, {}, <<"vad_pte_to_physical">>)

\* variant: the transition test placed before the prototype test
pte_to_physical_trans_first(lim, p, pr, pte0) ==
    LET virt == virt_t(p)
        pte  == unswizzle_pte(lim, pte0)
    IN  IF hard_Valid(pte0)
        THEN Outcome("tail",
                     Some(physical_page(Mul64(hard_PageFrameNumber(pte0), Val(PAGE_SIZE)), virt.offset)),
                     {}, <<>>)
        ELSE IF soft_Transition(pte)
        THEN Outcome("tail",
                     Some(physical_page(Mul64(trans_PageFrameNumber(pte), Val(PAGE_SIZE)), virt.offset)),
                     {}, <<>>)
        ELSE IF soft_Prototype(pte)
        THEN IF And64(proto_ProtoAddress(pte), vad_mask) = vad_mask
             THEN vad_pte_to_physical(p, pr)
             ELSE Outcome("pool", None, proto_ProtoAddress(pte), <<>>)
        ELSE IF pte = {} THEN vad_pte_to_physical(p, pr)
        ELSE IF soft_PageFileHigh(pte) = {} THEN Outcome("tail", Some(zero_page), {}, <<>>)
        ELSE Outcome("tail", Some(page_fault_required), {}, <<>>)

pte_to_physical(lim, p, pr, pte0) ==
    LET virt == virt_t(p)
        pte  == unswizzle_pte(lim, pte0)
    IN  IF hard_Valid(pte0)
        THEN Outcome("tail",
                     Some(physical_page(Mul64(hard_PageFrameNumber(pte0), Val(PAGE_SIZE)), virt.offset)),
                     {}, <<>>)
        ELSE IF soft_Prototype(pte)
        THEN IF And64(proto_ProtoAddress(pte), vad_mask) = vad_mask
             THEN vad_pte_to_physical(p, pr)
             ELSE Outcome("pool", None, proto_ProtoAddress(pte), <<>>)
        ELSE IF soft_Transition(pte)
        THEN Outcome("tail",
                     Some(physical_page(Mul64(trans_PageFrameNumber(pte), Val(PAGE_SIZE)), virt.offset)),
                     {}, <<>>)
        ELSE IF pte = {} THEN vad_pte_to_physical(p, pr)
        ELSE IF soft_PageFileHigh(pte) = {} THEN Outcome("tail", Some(zero_page), {}, <<>>)
        ELSE Outcome("tail", Some(page_fault_required), {}, <<>>)

\* byte buffers: the set of <<index, byte>> pairs of the non-zero bytes
ByteAt(buf, i) == IF \E b \in buf : b[1] = i THEN (CHOOSE b \in buf : b[1] = i)[2] ELSE 0

\* variant: the scan stops one byte short of size
is_zero_short(buf, size) == \A i \in 0..(size - 2) : ByteAt(buf, i) = 0

is_zero(buf, size) == \A i \in 0..(size - 1) : ByteAt(buf, i) = 0

\* variant: the fill stops one byte short of size
memset0_short(buf, size) == {b \in buf : b[1] >= size - 1}

memset0(buf, size) == {b \in buf : b[1] >= size}

(***************************************************************************)
(* Inputs: guest memory contents, addresses, sessions                      *)
(***************************************************************************)
Pfn(n) == Mul64(Val(n), Val(PAGE_SIZE))

E_Zero == {}
\* a present entry whose software-layout prototype and transition bits are set too
E_Table == {0, 10, 11} \cup Pfn(4660)
E_Large == {0, 7, 13, 21, 30, 33, 63}
E_NotPresentLarge == {7, 21}
E_ProtoVad == {10} \cup (48..63)
E_ProtoVadSwizzled == {4, 10} \cup (48..63)
E_ProtoPool == {4, 10, 11, 28, 59, 63}
E_Trans == {11} \cup Pfn(85)
E_HighOnly == {60}
E_DemandZero == {5, 6}
E_Pagefile == {1, 40}

PteValues == {E_Zero, E_Table, E_Large, E_NotPresentLarge,
              E_ProtoVad, E_ProtoVadSwizzled, E_ProtoPool, E_Trans, E_HighOnly,
              E_DemandZero, E_Pagefile}

VirtAddr(pml4, pdp, pd, pt, offset) ==
    Shl64(Val(pml4), 39) \cup Shl64(Val(pdp), 30) \cup Shl64(Val(pd), 21)
        \cup Shl64(Val(pt), 12) \cup Val(offset)

P_User == VirtAddr(1, 2, 1, 3, 564)
P_Kernel == (48..63) \cup VirtAddr(496, 0, 5, 17, 4095)
P_Partial == {52} \cup VirtAddr(0, 1, 0, 2, 8)

Pointers == {P_User, P_Kernel, P_Partial}

LimitMasks == {{}, 48..63}

Dtb_Call == {1, 5} \cup Pfn(427)
Dtb_Kernel == Pfn(426)
Dtb_Proc == Pfn(681)

Procs == {None, Some([kdtb |-> Dtb_Proc])}

Area_Id == (47..63) \cup Val(4096)
Offset_MMVAD_FirstPrototypePte == 72
FirstProto_Value == (47..63) \cup Val(8192)

Buf_Zero == {}
Buf_First == {<<0, 1>>}
Buf_Last == {<<PAGE_SIZE - 1, 255>>}
SrcBuffers == {Buf_Zero, Buf_First, Buf_Last}
Dst_Initial == {<<0, 170>>, <<PAGE_SIZE - 1, 85>>}
Phys_Data == {<<1, 7>>}

(***************************************************************************)
(* State                                                                   *)
(***************************************************************************)
VARIABLES
    pc,             \* position within the current API call
    op,             \* the API function being executed
    limit,          \* os.PhysicalMemoryLimitMask_
    ptr, proc, dtb, \* arguments of the call
    src, dst,       \* page buffers of write_page / read_page
    pml4e, pdpe, pde, pte,  \* opt<MMPTE> locals of the walker
    area, area_span, first_proto_pte, \* locals of vad_pte_to_physical
    pool_addr,      \* addr in pte_to_physical
    proto_pte,      \* opt<MMPTE> fetched by the prototype resolution
    nt_phy,         \* opt<ntphy_t> returned by ::virtual_to_physical
    ret,            \* value returned by the API call, once returned
    calls,          \* collaborator calls issued by the current call, in order
    entered         \* classifier functions entered, with the entry handed over

vars == <<pc, op, limit, ptr, proc, dtb, src, dst, pml4e, pdpe, pde, pte,
          area, area_span, first_proto_pte, pool_addr, proto_pte, nt_phy, ret,
          calls, entered>>

args == <<op, limit, ptr, proc, dtb, src>>
walk_locals == <<pml4e, pdpe, pde, pte>>
vad_locals == <<area, area_span, first_proto_pte>>

Init ==
    /\ pc = "idle"
    /\ op = "none"
    /\ limit \in LimitMasks
    /\ ptr = {} /\ proc = None /\ dtb = {}
    /\ src = {} /\ dst = Dst_Initial
    /\ pml4e = None /\ pdpe = None /\ pde = None /\ pte = None
    /\ area = None /\ area_span = None /\ first_proto_pte = {}
    /\ pool_addr = {}
    /\ proto_pte = None
    /\ nt_phy = None
    /\ ret = None
    /\ calls = <<>>
    /\ entered = <<>>

Log(entry) == calls' = Append(calls, entry)

PhysRead(addr, size, ok) == [fn |-> "read_physical", addr |-> addr, size |-> size, ok |-> ok]
PhysWrite(addr, size, ok) == [fn |-> "write_physical", addr |-> addr, size |-> size, ok |-> ok]
VirtRead(d, addr, size, ok) ==
    [fn |-> "read_virtual_with_dtb", dtb |-> d, addr |-> addr, size |-> size, ok |-> ok]
Lookup(fn, ok) == [fn |-> fn, ok |-> ok]

\* the walk returns r to the API function
Return(r) == pc' = "tail" /\ nt_phy' = r

\* the walk hands entry e to pte_to_physical and follows its outcome
Classify(e) ==
    LET o == pte_to_physical(limit, ptr, proc, e)
    IN  /\ pc' = o.next
        /\ nt_phy' = o.res
        /\ pool_addr' = o.addr
        /\ entered' = entered \o <<<<"pte_to_physical", e>>>> \o [i \in 1..Len(o.via) |-> <<o.via[i], e>>]

(***************************************************************************)
(* The API calls                                                           *)
(***************************************************************************)
Enter(f, p, pr, d) ==
    /\ pc = "idle"
    /\ pc' = "pml4e"
    /\ op' = f
    /\ ptr' = p /\ proc' = pr /\ dtb' = d
    /\ UNCHANGED <<limit, dst, walk_locals, vad_locals, pool_addr, proto_pte,
                   nt_phy, ret, calls, entered>>

call_read_page ==
    \E p \in Pointers, pr \in Procs :
        Enter("read_page", p, pr, Dtb_Call) /\ UNCHANGED src

call_write_page ==
    \E p \in Pointers, pr \in Procs, s \in SrcBuffers :
        Enter("write_page", p, pr, Dtb_Call) /\ src' = s

call_virtual_to_physical ==
    \E p \in Pointers, pr \in Procs :
        Enter("virtual_to_physical", p, pr, Dtb_Call) /\ UNCHANGED src

\* nt::Os::is_kernel_address called on its own
call_is_kernel_address ==
    \E p \in Pointers :
        /\ pc = "idle"
        /\ pc' = "done"
        /\ op' = "is_kernel_address"
        /\ ptr' = p
        /\ ret' = Some(is_kernel_address(p))
        /\ UNCHANGED <<limit, proc, dtb, src, dst, walk_locals, vad_locals, pool_addr,
                       proto_pte, nt_phy, calls, entered>>

(***************************************************************************)
(* ::virtual_to_physical, one action per table level                       *)
(***************************************************************************)
read_pml4e ==
    /\ pc = "pml4e"
    /\ LET virt       == virt_t(ptr)
           pml4e_base == And64(dtb, Shl64(mask(40), 12))
           pml4e_ptr  == Add64(pml4e_base, Mul64(virt.pml4, Val(8)))
       IN  \E ok \in BOOLEAN, e \in PteValues :
              /\ Log(PhysRead(pml4e_ptr, SizeofPte, ok))
              /\ IF ok /\ hard_Valid(e)
                 THEN pml4e' = Some(e) /\ pc' = "pdpe" /\ UNCHANGED nt_phy
                 ELSE pml4e' = None /\ Return(None)
    /\ UNCHANGED <<args, dst, pdpe, pde, pte, vad_locals, pool_addr, proto_pte, ret, entered>>

\* variant: the 1 GiB page computed with the 2 MiB masks
read_pdpe_2m_masks ==
    /\ pc = "pdpe"
    /\ LET virt     == virt_t(ptr)
           pdpe_ptr == Add64(Mul64(hard_PageFrameNumber(Value(pml4e)), Val(PAGE_SIZE)),
                             Mul64(virt.pdp, Val(SizeofPte)))
       IN  \E ok \in BOOLEAN, e \in PteValues :
              /\ Log(PhysRead(pdpe_ptr, SizeofPte, ok))
              /\ IF ok /\ hard_Valid(e)
                 THEN /\ pdpe' = Some(e)
                      /\ IF hard_LargePage(e)
                         THEN LET offset == And64(ptr, mask(21))
                                  base   == And64(e, Shl64(mask(31), 21))
                              IN  Return(Some(physical_page(base, offset)))
                         ELSE pc' = "pde" /\ UNCHANGED nt_phy
                 ELSE pdpe' = None /\ Return(None)
    /\ UNCHANGED <<args, dst, pml4e, pde, pte, vad_locals, pool_addr, proto_pte, ret, entered>>

read_pdpe ==
    /\ pc = "pdpe"
    /\ LET virt     == virt_t(ptr)
           pdpe_ptr == Add64(Mul64(hard_PageFrameNumber(Value(pml4e)), Val(PAGE_SIZE)),
                             Mul64(virt.pdp, Val(SizeofPte)))
       IN  \E ok \in BOOLEAN, e \in PteValues :
              /\ Log(PhysRead(pdpe_ptr, SizeofPte, ok))
              /\ IF ok /\ hard_Valid(e)
                 THEN /\ pdpe' = Some(e)
                      /\ IF hard_LargePage(e)
                         THEN LET offset == And64(ptr, mask(30))
                                  base   == And64(e, Shl64(mask(22), 30))
                              IN  Return(Some(physical_page(base, offset)))
                         ELSE pc' = "pde" /\ UNCHANGED nt_phy
                 ELSE pdpe' = None /\ Return(None)
    /\ UNCHANGED <<args, dst, pml4e, pde, pte, vad_locals, pool_addr, proto_pte, ret, entered>>

\* variant: the large-page test placed before the present test
read_pde_large_first ==
    /\ pc = "pde"
    /\ LET virt    == virt_t(ptr)
           pde_ptr == Add64(Mul64(hard_PageFrameNumber(Value(pdpe)), Val(PAGE_SIZE)),
                            Mul64(virt.pd, Val(SizeofPte)))
       IN  \E ok \in BOOLEAN, e \in PteValues :
              /\ Log(PhysRead(pde_ptr, SizeofPte, ok))
              /\ IF ~ok
                 THEN pde' = None /\ Return(None) /\ UNCHANGED <<pool_addr, entered>>
                 ELSE /\ pde' = Some(e)
                      /\ IF hard_LargePage(e)
                         THEN LET offset == And64(ptr, mask(21))
                                  base   == And64(e, Shl64(mask(31), 21))
                              IN  /\ Return(Some(physical_page(base, offset)))
                                  /\ UNCHANGED <<pool_addr, entered>>
                         ELSE IF ~hard_Valid(e) THEN Classify(e)
                         ELSE pc' = "pte" /\ UNCHANGED <<nt_phy, pool_addr, entered>>
    /\ UNCHANGED <<args, dst, pml4e, pdpe, pte, vad_locals, proto_pte, ret>>

read_pde ==
    /\ pc = "pde"
    /\ LET virt    == virt_t(ptr)
           pde_ptr == Add64(Mul64(hard_PageFrameNumber(Value(pdpe)), Val(PAGE_SIZE)),
                            Mul64(virt.pd, Val(SizeofPte)))
       IN  \E ok \in BOOLEAN, e \in PteValues :
              /\ Log(PhysRead(pde_ptr, SizeofPte, ok))
              /\ IF ~ok
                 THEN pde' = None /\ Return(None) /\ UNCHANGED <<pool_addr, entered>>
                 ELSE /\ pde' = Some(e)
                      /\ IF ~hard_Valid(e) THEN Classify(e)
                         ELSE IF hard_LargePage(e)
                         THEN LET offset == And64(ptr, mask(21))
                                  base   == And64(e, Shl64(mask(31), 21))
                              IN  /\ Return(Some(physical_page(base, offset)))
                                  /\ UNCHANGED <<pool_addr, entered>>
                         ELSE pc' = "pte" /\ UNCHANGED <<nt_phy, pool_addr, entered>>
    /\ UNCHANGED <<args, dst, pml4e, pdpe, pte, vad_locals, proto_pte, ret>>

read_pte ==
    /\ pc = "pte"
    /\ LET virt    == virt_t(ptr)
           pte_ptr == Add64(Mul64(hard_PageFrameNumber(Value(pde)), Val(PAGE_SIZE)),
                            Mul64(virt.pt, Val(SizeofPte)))
       IN  \E ok \in BOOLEAN, e \in PteValues :
              /\ Log(PhysRead(pte_ptr, SizeofPte, ok))
              /\ IF ~ok
                 THEN pte' = None /\ Return(None) /\ UNCHANGED <<pool_addr, entered>>
                 ELSE pte' = Some(e) /\ Classify(e)
    /\ UNCHANGED <<args, dst, pml4e, pdpe, pde, vad_locals, proto_pte, ret>>

(***************************************************************************)
(* pte_to_physical: the PagedPool read of a prototype PTE                  *)
(***************************************************************************)
\* variant: the pool read issued under the calling process's kernel DTB
read_pool_prototype_proc_dtb ==
    /\ pc = "pool"
    /\ \E ok \in BOOLEAN, e \in PteValues :
          /\ Log(VirtRead(IF HasValue(proc) THEN Value(proc).kdtb ELSE Dtb_Kernel,
                          pool_addr, SizeofPte, ok))
          /\ IF ~ok
             THEN /\ Return(Some(page_fault_required))
                  /\ UNCHANGED <<proto_pte, entered>>
             ELSE /\ proto_pte' = Some(e)
                  /\ entered' = Append(entered, <<"prototype_pte_to_physical", e>>)
                  /\ Return(Some(prototype_pte_to_physical(limit, ptr, e)))
    /\ UNCHANGED <<args, dst, walk_locals, vad_locals, pool_addr, ret>>

read_pool_prototype ==
    /\ pc = "pool"
    /\ \E ok \in BOOLEAN, e \in PteValues :
          /\ Log(VirtRead(Dtb_Kernel, pool_addr, SizeofPte, ok))
          /\ IF ~ok
             THEN /\ Return(Some(page_fault_required))
                  /\ UNCHANGED <<proto_pte, entered>>
             ELSE /\ proto_pte' = Some(e)
                  /\ entered' = Append(entered, <<"prototype_pte_to_physical", e>>)
                  /\ Return(Some(prototype_pte_to_physical(limit, ptr, e)))
    /\ UNCHANGED <<args, dst, walk_locals, vad_locals, pool_addr, ret>>

(***************************************************************************)
(* vad_pte_to_physical with a process                                      *)
(***************************************************************************)
vm_area_find ==
    /\ pc = "vad_find"
    /\ \E found \in BOOLEAN :
          /\ Log(Lookup("vm_area::find", found))
          /\ IF found
             THEN area' = Some([id |-> Area_Id]) /\ pc' = "vad_span" /\ UNCHANGED nt_phy
             ELSE area' = None /\ Return(None)
    /\ UNCHANGED <<args, dst, walk_locals, area_span, first_proto_pte, pool_addr,
                   proto_pte, ret, entered>>

vm_area_span ==
    /\ pc = "vad_span"
    /\ \E found \in BOOLEAN :
          /\ Log(Lookup("vm_area::span", found))
          /\ IF found
             THEN /\ area_span' = Some([addr |-> And64(ptr, Not64(mask(21))),
                                        size |-> Shl64({0}, 21)])
                  /\ pc' = "vad_first" /\ UNCHANGED nt_phy
             ELSE area_span' = None /\ Return(None)
    /\ UNCHANGED <<args, dst, walk_locals, area, first_proto_pte, pool_addr,
                   proto_pte, ret, entered>>

read_first_proto_pte ==
    /\ pc = "vad_first"
    /\ \E ok \in BOOLEAN :
          /\ Log(VirtRead(Value(proc).kdtb,
                          Add64(Value(area).id, Val(Offset_MMVAD_FirstPrototypePte)),
                          8, ok))
          /\ IF ok
             THEN first_proto_pte' = FirstProto_Value /\ pc' = "vad_pte" /\ UNCHANGED nt_phy
             ELSE UNCHANGED first_proto_pte /\ Return(None)
    /\ UNCHANGED <<args, dst, walk_locals, area, area_span, pool_addr, proto_pte, ret, entered>>

read_vad_proto_pte ==
    /\ pc = "vad_pte"
    /\ LET pte_ptr == Add64(first_proto_pte,
                            Mul64(Div64(Sub64(ptr, Value(area_span).addr), PAGE_SIZE),
                                  Val(SizeofPte)))
       IN  \E ok \in BOOLEAN, e \in PteValues :
              /\ Log(VirtRead(Value(proc).kdtb, pte_ptr, SizeofPte, ok))
              /\ IF ~ok
                 THEN Return(None) /\ UNCHANGED <<proto_pte, entered>>
                 ELSE /\ proto_pte' = Some(e)
                      /\ entered' = Append(entered, <<"prototype_pte_to_physical", e>>)
                      /\ Return(Some(prototype_pte_to_physical(limit, ptr, e)))
    /\ UNCHANGED <<args, dst, walk_locals, vad_locals, pool_addr, ret>>

(***************************************************************************)
(* The API functions, after the walk has returned nt_phy                   *)
(***************************************************************************)
Done(r) == pc' = "done" /\ ret' = Some(r)

read_page ==
    /\ pc = "tail" /\ op = "read_page"
    /\ IF ~HasValue(nt_phy)
       THEN Done(FALSE) /\ UNCHANGED <<dst, calls>>
       ELSE IF Value(nt_phy).zero_page
       THEN dst' = memset0(dst, PAGE_SIZE) /\ Done(TRUE) /\ UNCHANGED calls
       ELSE IF Value(nt_phy).valid_page
       THEN \E ok \in BOOLEAN :
               /\ Log(PhysRead(Value(nt_phy).ptr, PAGE_SIZE, ok))
               /\ dst' = IF ok THEN Phys_Data ELSE dst
               /\ Done(ok)
       ELSE Done(FALSE) /\ UNCHANGED <<dst, calls>>
    /\ UNCHANGED <<args, walk_locals, vad_locals, pool_addr, proto_pte, nt_phy, entered>>

write_page ==
    /\ pc = "tail" /\ op = "write_page"
    /\ IF ~HasValue(nt_phy)
       THEN Done(FALSE) /\ UNCHANGED calls
       ELSE IF Value(nt_phy).valid_page
       THEN \E ok \in BOOLEAN :
               /\ Log(PhysWrite(Value(nt_phy).ptr, PAGE_SIZE, ok))
               /\ Done(ok)
       ELSE IF Value(nt_phy).zero_page
       THEN Done(is_zero(src, PAGE_SIZE)) /\ UNCHANGED calls
       ELSE Done(FALSE) /\ UNCHANGED calls
    /\ UNCHANGED <<args, dst, walk_locals, vad_locals, pool_addr, proto_pte, nt_phy, entered>>

\* variant: the address reported whenever the walk returned a result
Os_virtual_to_physical_any ==
    /\ pc = "tail" /\ op = "virtual_to_physical"
    /\ IF ~HasValue(nt_phy)
       THEN Done(None)
       ELSE Done(Some(Value(nt_phy).ptr))
    /\ UNCHANGED <<args, dst, walk_locals, vad_locals, pool_addr, proto_pte, nt_phy,
                   calls, entered>>

Os_virtual_to_physical ==
    /\ pc = "tail" /\ op = "virtual_to_physical"
    /\ IF ~HasValue(nt_phy)
       THEN Done(None)
       ELSE IF Value(nt_phy).valid_page
       THEN Done(Some(Value(nt_phy).ptr))
       ELSE Done(None)
    /\ UNCHANGED <<args, dst, walk_locals, vad_locals, pool_addr, proto_pte, nt_phy,
                   calls, entered>>

Next ==
    \/ call_read_page
    \/ call_write_page
    \/ call_virtual_to_physical
    \/ call_is_kernel_address
    \/ read_pml4e
    \/ read_pdpe
    \/ read_pde
    \/ read_pte
    \/ read_pool_prototype
    \/ vm_area_find
    \/ vm_area_span
    \/ read_first_proto_pte
    \/ read_vad_proto_pte
    \/ read_page
    \/ write_page
    \/ Os_virtual_to_physical

Spec == Init /\ [][Next]_vars

(***************************************************************************)
(* Vocabulary of the properties                                            *)
(***************************************************************************)
CallsOf(f) == {i \in 1..Len(calls) : calls[i].fn = f}
EntryReads == {i \in CallsOf("read_physical") : calls[i].size = 8}
PageReads == {i \in CallsOf("read_physical") : calls[i].size = 4096}
PhysWrites == CallsOf("write_physical")
VirtReads == CallsOf("read_virtual_with_dtb")
Lookups == CallsOf("vm_area::find") \cup CallsOf("vm_area::span")

Walked == pc \in {"tail", "done"}
Returned == pc = "done"
Resolved == Walked /\ HasValue(nt_phy) /\ Value(nt_phy).valid_page
DemandZero == Walked /\ HasValue(nt_phy) /\ Value(nt_phy).zero_page
Absent == Walked /\ ~HasValue(nt_phy)
FaultRequired ==
    Walked /\ HasValue(nt_phy) /\ ~Value(nt_phy).valid_page /\ ~Value(nt_phy).zero_page
Unresolved == Absent \/ FaultRequired

AllZero(buf) == \A b \in buf : b[1] \in 0..4095 => b[2] = 0

\* frame number x 4096, for a frame number held in bits 12..47 of an entry
FrameBase(e) == {b \in e : 12 <= b /\ b <= 47}
PageOffset(p) == {b \in p : b <= 11}
Unswizzled(e) == IF limit # {} /\ 4 \notin e THEN e \ limit ELSE e
EnteredNames == {entered[i][1] : i \in 1..Len(entered)}

(***************************************************************************)
(* C1                                                                      *)
(***************************************************************************)
\* C1: write_page on a demand-zero address returns success iff all 4096
\* source bytes are zero and issues no physical write either way; a physical
\* write is issued only on a resolved outcome; an unresolved outcome fails.
C1_WritePage ==
    /\ (PhysWrites # {} => op = "write_page" /\ Resolved)
    /\ (Returned /\ op = "write_page") =>
          /\ DemandZero => /\ (ret = Some(TRUE)) <=> AllZero(src)
                           /\ ret \in {Some(TRUE), Some(FALSE)}
                           /\ PhysWrites = {}
          /\ Unresolved => ret = Some(FALSE) /\ PhysWrites = {}

C1_Witness ==
    Returned /\ op = "write_page" /\ DemandZero /\ src = Buf_Last /\ ret = Some(FALSE)

(***************************************************************************)
(* C2                                                                      *)
(***************************************************************************)
\* C2: read_page on a demand-zero address zero-fills the 4096 destination
\* bytes and succeeds without a page-sized physical read; on a resolved
\* outcome it returns the result of exactly one 4096-byte physical read at
\* the resolved address; on an unresolved outcome it fails and leaves the
\* destination untouched.
C2_ReadPage ==
    (Returned /\ op = "read_page") =>
        /\ DemandZero => /\ ret = Some(TRUE)
                         /\ \A i \in {0, 1, 2047, 4094, 4095} : ByteAt(dst, i) = 0
                         /\ AllZero(dst)
                         /\ PageReads = {}
        /\ Resolved => /\ Cardinality(PageReads) = 1
                       /\ \A i \in PageReads : /\ calls[i].addr = Value(nt_phy).ptr
                                               /\ ret = Some(calls[i].ok)
        /\ Unresolved => ret = Some(FALSE) /\ dst = Dst_Initial /\ PageReads = {}

C2_Witness ==
    Returned /\ op = "read_page" /\ DemandZero /\ dst = {} /\ ret = Some(TRUE)

(***************************************************************************)
(* C3                                                                      *)
(***************************************************************************)
PresentTable(o) == HasValue(o) /\ 0 \in Value(o) /\ 7 \notin Value(o)

\* C3: the public virtual_to_physical returns an address exactly when the
\* walk outcome is resolved (none for demand-zero and unresolved); for a chain
\* of present, non-large entries ending in a present leaf entry the address is
\* leaf frame number x 4096 + the low 12 bits of the virtual address.
C3_VirtualToPhysical ==
    (Returned /\ op = "virtual_to_physical") =>
        /\ HasValue(ret)
        /\ HasValue(Value(ret)) <=> Resolved
        /\ (DemandZero \/ Unresolved) => Value(ret) = None
        /\ Resolved => Value(ret) = Some(Value(nt_phy).ptr)
        /\ (/\ PresentTable(pml4e) /\ PresentTable(pdpe) /\ PresentTable(pde)
            /\ HasValue(pte) /\ 0 \in Value(pte))
              => Value(ret) = Some(FrameBase(Value(pte)) \cup PageOffset(ptr))

C3_Witness ==
    /\ Returned /\ op = "virtual_to_physical"
    /\ PresentTable(pml4e) /\ PresentTable(pdpe) /\ PresentTable(pde)
    /\ pte = Some(E_Table)
    /\ ptr = P_Kernel
    /\ ret = Some(Some(Pfn(4660) \cup Val(4095)))

(***************************************************************************)
(* C4                                                                      *)
(***************************************************************************)
\* C4: with the top-level and upper-mid entries present and the upper-mid
\* large-page flag set, the walk is resolved at (entry bits 30..51) +
\* (address bits 0..29) after exactly two physical entry reads, with no
\* lower-mid read, leaf read, virtual read or descriptor lookup.
C4_LargePage1G ==
    (HasValue(pml4e) /\ HasValue(pdpe) /\ 7 \in Value(pdpe)) =>
        /\ 0 \in Value(pml4e) /\ 0 \in Value(pdpe)
        /\ Resolved
        /\ Value(nt_phy).ptr = {b \in Value(pdpe) : 30 <= b /\ b <= 51}
                                  \cup {b \in ptr : b <= 29}
        /\ Cardinality(EntryReads) = 2
        /\ pde = None /\ pte = None
        /\ VirtReads = {} /\ Lookups = {} /\ entered = <<>>

C4_Witness ==
    /\ Returned /\ pdpe = Some(E_Large) /\ ptr = P_User
    /\ nt_phy = Some([ptr |-> {30, 33} \cup {2, 4, 5, 9, 12, 13, 21},
                      valid_page |-> TRUE, zero_page |-> FALSE])

(***************************************************************************)
(* C5                                                                      *)
(***************************************************************************)
PdeRead == HasValue(pde) /\ pc # "pde"
\* the lower-mid entry, not a leaf entry, is what the classifier was handed
PdeClassified == PdeRead /\ pte = None /\ entered # <<>>
LargePage2M(e) ==
    /\ Resolved
    /\ Value(nt_phy).ptr = {b \in e : 21 <= b /\ b <= 51} \cup {b \in ptr : b <= 20}
    /\ pte = None
    /\ Cardinality(EntryReads) = 3
    /\ entered = <<>>

\* C5 as stated: a lower-mid entry with the large-page flag set is resolved as
\* a 2 MiB page whatever its present bit, and the classifier is handed the
\* lower-mid value only when both the large-page flag and the present bit
\* are clear.
C5_LargeBeforePresent ==
    PdeRead =>
        /\ 7 \in Value(pde) => LargePage2M(Value(pde))
        /\ PdeClassified => (7 \notin Value(pde) /\ 0 \notin Value(pde))

\* C5 (amended): the present test comes first. A lower-mid entry that is
\* present and has the large-page flag set is resolved at (entry bits 21..51)
\* + (address bits 0..20) without a leaf read; the classifier is handed the
\* raw lower-mid value exactly when its present bit is clear, whatever its
\* large-page flag.
C5_PresentBeforeLarge ==
    PdeRead =>
        /\ (0 \in Value(pde) /\ 7 \in Value(pde)) => LargePage2M(Value(pde))
        /\ PdeClassified <=> 0 \notin Value(pde)
        /\ PdeClassified => entered[1] = <<"pte_to_physical", Value(pde)>>

C5_Witness ==
    /\ Returned /\ pde = Some(E_NotPresentLarge) /\ pte = None
    /\ entered = <<<<"pte_to_physical", E_NotPresentLarge>>>>
    /\ DemandZero

ResolvedAt(a) == nt_phy = Some([ptr |-> a, valid_page |-> TRUE, zero_page |-> FALSE])
NoDelegation == VirtReads = {} /\ Lookups = {} /\ Len(entered) = 1 /\ pc # "pool"
Sentinel(u) == \A b \in 48..63 : b \in u

\* the one rule of the decision order that covers entry e
Rule(e) ==
    LET u == Unswizzled(e)
    IN  IF 0 \in e THEN 1
        ELSE IF 10 \in u THEN 2
        ELSE IF 11 \in u THEN 3
        ELSE IF u = {} THEN 4
        ELSE IF \A b \in 32..63 : b \notin u THEN 5
        ELSE 6

\* the entry the walk handed to the classifier
Classified == entered # <<>> /\ entered[1][1] = "pte_to_physical"
ClassifiedEntry == entered[1][2]

\* C7: an entry from the direct walk is decided by the first matching rule of
\* (1) present -> resolved at hardware frame x 4096 + offset; after
\* unswizzling (2) prototype flag -> prototype resolver, (3) transition flag ->
\* resolved at transition frame x 4096 + offset, (4) value zero ->
\* address-space-descriptor path, (5) on-disk indicator clear -> demand-zero,
\* (6) fault-required; the outcome never has both resolved and demand-zero.
C7_DecisionOrder ==
    /\ entered # <<>> => Classified
    /\ HasValue(nt_phy) => ~(Value(nt_phy).valid_page /\ Value(nt_phy).zero_page)
    /\ Classified =>
         LET e == ClassifiedEntry
             u == Unswizzled(e)
             r == Rule(e)
         IN  /\ r = 1 => /\ Walked /\ NoDelegation
                         /\ ResolvedAt(FrameBase(e) \cup PageOffset(ptr))
             /\ r = 2 => /\ ~Sentinel(u) =>
                              /\ "vad_pte_to_physical" \notin EnteredNames
                              /\ Lookups = {}
                              /\ pc = "pool" \/ Cardinality(VirtReads) = 1
                         /\ Sentinel(u) => /\ entered[2] = <<"vad_pte_to_physical", e>>
                                           /\ pc # "pool"
             /\ r = 3 => /\ Walked /\ NoDelegation
                         /\ ResolvedAt(FrameBase(u) \cup PageOffset(ptr))
             /\ r = 4 => entered[2] = <<"vad_pte_to_physical", e>> /\ pc # "pool"
             /\ r = 5 => Walked /\ NoDelegation /\ nt_phy = Some(zero_page)
             /\ r = 6 => Walked /\ NoDelegation /\ nt_phy = Some(page_fault_required)

\* a prototype entry that also carries the transition flag goes to the pool
C7_Witness ==
    /\ Classified /\ ClassifiedEntry = E_ProtoPool /\ pc = "pool"
    /\ pool_addr = {12, 43} \cup (47..63)

(***************************************************************************)
(* C8                                                                      *)
(***************************************************************************)
\* the pool branch was taken: the classified entry is a prototype entry
\* without the per-process sentinel, and the pool read has been issued
PoolBranch ==
    /\ Classified
    /\ Rule(ClassifiedEntry) = 2 /\ ~Sentinel(Unswizzled(ClassifiedEntry))
    /\ pc # "pool"
PoolFetch == calls[Len(calls) - (IF Returned /\ Cardinality(PageReads \cup PhysWrites) = 1 THEN 1 ELSE 0)]
PoolReadContract ==
    /\ Cardinality(VirtReads) = 1
    /\ PoolFetch.fn = "read_virtual_with_dtb"
    /\ PoolFetch.dtb = Dtb_Kernel
    /\ PoolFetch.addr = pool_addr
    /\ ~PoolFetch.ok => nt_phy = Some(page_fault_required) /\ proto_pte = None
    /\ PoolFetch.ok => HasValue(proto_pte)

Occurrences(name) == Cardinality({i \in 1..Len(entered) : entered[i][1] = name})

\* an entry fetched by prototype resolution that classifies as a prototype
\* entry: not present, prototype flag set after unswizzling
FetchedPrototype ==
    /\ HasValue(proto_pte)
    /\ 0 \notin Value(proto_pte)
    /\ 10 \in Unswizzled(Value(proto_pte))

C9_Bounded ==
    /\ Cardinality(EntryReads) <= 4
    /\ Cardinality(VirtReads) <= 2
    /\ Occurrences("prototype_pte_to_physical") <= 1
    /\ Occurrences("vad_pte_to_physical") <= 1
    /\ Occurrences("pte_to_physical") <= 1
    /\ HasValue(proto_pte) =>
          /\ Walked
          /\ Occurrences("prototype_pte_to_physical") = 1
          /\ entered[Len(entered)] = <<"prototype_pte_to_physical", Value(proto_pte)>>
    /\ FetchedPrototype =>
          /\ nt_phy = Some(page_fault_required)
          /\ calls[Len(calls)].fn = "read_virtual_with_dtb"
          /\ calls[Len(calls)].ok

\* the number of steps a call can still take from its current position
Rank ==
    CASE pc = "idle" -> 11
      [] pc = "pml4e" -> 10
      [] pc = "pdpe" -> 9
      [] pc = "pde" -> 8
      [] pc = "pte" -> 7
      [] pc = "vad_find" -> 6
      [] pc = "vad_span" -> 5
      [] pc = "vad_first" -> 4
      [] pc \in {"vad_pte", "pool"} -> 3
      [] pc = "tail" -> 1
      [] pc = "done" -> 0

VadPath ==
    /\ Classified
    /\ \/ Rule(ClassifiedEntry) = 4
       \/ Rule(ClassifiedEntry) = 2 /\ Sentinel(Unswizzled(ClassifiedEntry))

====
